---- MODULE Spec2Model ----
(***************************************************************************)
(* Model of tauri-plugin-llm/windows/windows_llm_bridge.cpp: the three     *)
(* exported C entry points of the Phi Silica bridge DLL, called by host    *)
(* threads of one process.                                                 *)
(*                                                                         *)
(* The process state is the C runtime heap of the DLL (the blocks malloc   *)
(* has handed out and free has not taken back), whether that heap is still *)
(* intact, whether the process has faulted, and the number of backend      *)
(* handles the bridge has created and destroyed.  Each entry point is an   *)
(* operator from the process state and the arguments to the set of         *)
(* outcomes the build can produce; a host thread enters an entry point     *)
(* (Call...) and the body then runs as one step.                           *)
(***************************************************************************)
EXTENDS Integers, Sequences, FiniteSets, TLC

\* ---------------------------------------------------------------- bounds
NThreads == 2
MaxAddr == 2

\* ------------------------------------------------------------- constants
NULL == 0
Unsupported == 3

Threads == 1..NThreads
Addr == 1..MaxAddr
Ptr == {NULL} \cup Addr

\* the closed set of status codes of the wire contract
StatusCodes == 0..3

\* ------------------------------------------------------ request arguments
\* const char* prompt: a null pointer, or a pointer to a null-terminated text
NullPrompt == [valid |-> FALSE, text |-> ""]
EmptyPrompt == [valid |-> TRUE, text |-> ""]
Hello == [valid |-> TRUE, text |-> "Hello"]
\* the requests a host thread makes: (prompt, temperature in tenths, maxTokens).
\* Well-formed ones (with an empty prompt, with a temperature outside
\* [0.0, 2.0]) and caller errors (maxTokens = 0, a null prompt, all at once).
Requests ==
    { [prompt |-> Hello,       temperature |-> 7,  maxTokens |-> 16],
      [prompt |-> EmptyPrompt, temperature |-> 7,  maxTokens |-> 16],
      [prompt |-> Hello,       temperature |-> 25, maxTokens |-> 16],
      [prompt |-> Hello,       temperature |-> 7,  maxTokens |-> 0],
      [prompt |-> NullPrompt,  temperature |-> 7,  maxTokens |-> 16],
      [prompt |-> NullPrompt,  temperature |-> 25, maxTokens |-> 0 - 1] }

VARIABLES
    proc,        \* process state: CRT heap, fault, backend handle counters
    pc,          \* per thread: "idle", the entry point it is inside, or "faulted"
    call,        \* per thread: the arguments of its latest call
    res,         \* per thread: what its latest completed call returned
    lastStatus,  \* <<>> or <<s>>: the status the latest completed probe returned
    statusSeen,  \* every status any probe has returned
    overlapped,  \* a generate body has run while another thread was inside generate
    held,        \* buffers generate returned that were not yet passed to release
    produced     \* every non-null pointer generate ever returned

vars == <<proc, pc, call, res, lastStatus, statusSeen, overlapped, held, produced>>

NoCall == [fn |-> "none", prompt |-> NullPrompt, temperature |-> 0, maxTokens |-> 0,
           ptr |-> NULL, before |-> <<>>]
NoRes == [fn |-> "none", ret |-> 0]

\* ------------------------------------------------------------- C runtime
\* malloc: a block that is not live, or NULL when the heap is exhausted
malloc(p) ==
    IF Addr \ p.live = {}
    THEN {[ret |-> NULL, proc |-> p]}
    ELSE {[ret |-> a, proc |-> [p EXCEPT !.live = @ \cup {a}]] : a \in Addr \ p.live}

\* free of a non-null pointer: a live block of an intact heap is returned to
\* the heap; anything else (a pointer malloc never returned, a block already
\* freed, a damaged heap) is undefined: it passes unnoticed, damages the
\* heap, or faults.
free(p, ptr) ==
    IF ptr \in p.live /\ p.heapOk
    THEN {[p EXCEPT !.live = @ \ {ptr}]}
    ELSE {p, [p EXCEPT !.heapOk = FALSE], [p EXCEPT !.fault = "free"]}

\* ------------------------------------------------------- the entry points
\* faulty variant: the probe lazily creates the backend handle on every call
windows_llm_check_availabilityInit(p) ==
    {[ret |-> Unsupported, proc |-> [p EXCEPT !.handleInits = @ + 1]]}

\* faulty variant: the probe reports an unnumbered status
windows_llm_check_availabilityCode(p) ==
    {[ret |-> 4, proc |-> p]}

\* faulty variant: the first probe reports NotReady, later ones Unsupported
windows_llm_check_availabilityFlip(p) ==
    IF p.handleInits = 0
    THEN {[ret |-> 1, proc |-> [p EXCEPT !.handleInits = 1]]}
    ELSE {[ret |-> Unsupported, proc |-> p]}

\* int windows_llm_check_availability() { return 3; }
windows_llm_check_availability(p) ==
    {[ret |-> Unsupported, proc |-> p]}

\* faulty variant: generate returns a malloc'd completion for a positive maxTokens
windows_llm_generateMalloc(p, prompt, temperature, maxTokens) ==
    IF maxTokens > 0 THEN malloc(p) ELSE {[ret |-> NULL, proc |-> p]}

\* faulty variant: generate measures the prompt before giving up
windows_llm_generateStrlen(p, prompt, temperature, maxTokens) ==
    IF prompt.valid
    THEN {[ret |-> NULL, proc |-> p]}
    ELSE {[ret |-> NULL, proc |-> [p EXCEPT !.fault = "generate"]]}

\* faulty variant: generate returns the address of one static buffer
windows_llm_generateStatic(p, prompt, temperature, maxTokens) ==
    {[ret |-> 1, proc |-> p]}

\* char* windows_llm_generate(const char* prompt, float temperature,
\*                            int maxTokens) { return nullptr; }
windows_llm_generate(p, prompt, temperature, maxTokens) ==
    {[ret |-> NULL, proc |-> p]}

\* faulty variant: release wipes the first byte of the buffer before the null check
windows_llm_free_stringWipe(p, ptr) ==
    IF ptr = NULL THEN {[p EXCEPT !.fault = "free"]} ELSE free(p, ptr)

\* void windows_llm_free_string(char* ptr) { if (ptr) { free(ptr); } }
windows_llm_free_string(p, ptr) ==
    IF ptr # NULL THEN free(p, ptr) ELSE {p}

\* ------------------------------------------------------------------ Init
Init ==
    /\ proc = [live |-> {}, heapOk |-> TRUE, fault |-> "none",
               handleInits |-> 0, handleTeardowns |-> 0]
    /\ pc = [t \in Threads |-> "idle"]
    /\ call = [t \in Threads |-> NoCall]
    /\ res = [t \in Threads |-> NoRes]
    /\ lastStatus = <<>>
    /\ statusSeen = {}
    /\ overlapped = FALSE
    /\ held = {}
    /\ produced = {}

\* a thread can make a step only in a process that has not faulted
Running == proc.fault = "none"

\* ------------------------------------------------- a host thread calls in
CallProbe(t) ==
    /\ Running /\ pc[t] = "idle"
    /\ pc' = [pc EXCEPT ![t] = "probe"]
    /\ call' = [call EXCEPT ![t] = [NoCall EXCEPT !.fn = "probe", !.before = lastStatus]]
    /\ res' = [res EXCEPT ![t] = NoRes]
    /\ UNCHANGED <<proc, lastStatus, statusSeen, overlapped, held, produced>>

CallGenerate(t) ==
    /\ Running /\ pc[t] = "idle"
    /\ \E r \in Requests :
         call' = [call EXCEPT ![t] = [fn |-> "generate", prompt |-> r.prompt,
                                      temperature |-> r.temperature,
                                      maxTokens |-> r.maxTokens, ptr |-> NULL,
                                      before |-> lastStatus]]
    /\ pc' = [pc EXCEPT ![t] = "generate"]
    /\ res' = [res EXCEPT ![t] = NoRes]
    /\ UNCHANGED <<proc, lastStatus, statusSeen, overlapped, held, produced>>

CallFreeString(t) ==
    /\ Running /\ pc[t] = "idle"
    /\ \E ptr \in Ptr :
         call' = [call EXCEPT ![t] = [NoCall EXCEPT !.fn = "free", !.ptr = ptr]]
    /\ pc' = [pc EXCEPT ![t] = "free"]
    /\ res' = [res EXCEPT ![t] = NoRes]
    /\ UNCHANGED <<proc, lastStatus, statusSeen, overlapped, held, produced>>

\* another thread is inside generate
Overlaps(t) == \E u \in Threads \ {t} : pc[u] = "generate"

\* --------------------------------------------------- the bodies, one step
Probe(t) ==
    /\ Running /\ pc[t] = "probe"
    /\ \E o \in windows_llm_check_availability(proc) :
         /\ proc' = o.proc
         /\ IF o.proc.fault = "none"
            THEN /\ pc' = [pc EXCEPT ![t] = "idle"]
                 /\ res' = [res EXCEPT ![t] = [fn |-> "probe", ret |-> o.ret]]
                 /\ lastStatus' = <<o.ret>>
                 /\ statusSeen' = statusSeen \cup {o.ret}
            ELSE /\ pc' = [pc EXCEPT ![t] = "faulted"]
                 /\ UNCHANGED <<res, lastStatus, statusSeen>>
    /\ UNCHANGED <<call, overlapped, held, produced>>

Generate(t) ==
    /\ Running /\ pc[t] = "generate"
    /\ \E o \in windows_llm_generate(proc, call[t].prompt, call[t].temperature,
                                     call[t].maxTokens) :
         /\ proc' = o.proc
         /\ IF o.proc.fault = "none"
            THEN /\ pc' = [pc EXCEPT ![t] = "idle"]
                 /\ res' = [res EXCEPT ![t] = [fn |-> "generate", ret |-> o.ret]]
                 /\ held' = held \cup ({o.ret} \ {NULL})
                 /\ produced' = produced \cup ({o.ret} \ {NULL})
            ELSE /\ pc' = [pc EXCEPT ![t] = "faulted"]
                 /\ UNCHANGED <<res, held, produced>>
    /\ overlapped' = (overlapped \/ Overlaps(t))
    /\ UNCHANGED <<call, lastStatus, statusSeen>>

FreeString(t) ==
    /\ Running /\ pc[t] = "free"
    /\ \E q \in windows_llm_free_string(proc, call[t].ptr) :
         /\ proc' = q
         /\ IF q.fault = "none"
            THEN /\ pc' = [pc EXCEPT ![t] = "idle"]
                 /\ res' = [res EXCEPT ![t] = [fn |-> "free", ret |-> 0]]
                 /\ held' = held \ {call[t].ptr}
            ELSE /\ pc' = [pc EXCEPT ![t] = "faulted"]
                 /\ UNCHANGED <<res, held>>
    /\ UNCHANGED <<call, lastStatus, statusSeen, overlapped, produced>>

Next ==
    \E t \in Threads :
        \/ CallProbe(t)
        \/ CallGenerate(t)
        \/ CallFreeString(t)
        \/ Probe(t)
        \/ Generate(t)
        \/ FreeString(t)

Spec == Init /\ [][Next]_vars

\* ================================================================ claims
\* a well-formed request: non-null prompt, maxTokens > 0, any temperature
WellFormed(c) == c.prompt.valid /\ c.maxTokens > 0

\* C1: when the latest probe before a generate call returned 1, 2 or 3, a
\* generate call with a well-formed request returns the null sentinel.
C1_GracefulDegradation ==
    \A t \in Threads :
        ( /\ res[t].fn = "generate"
          /\ WellFormed(call[t])
          /\ Len(call[t].before) = 1
          /\ call[t].before[1] \in {1, 2, 3} )
        => res[t].ret = NULL

C1_Witness ==
    \E t \in Threads :
        /\ res[t].fn = "generate"
        /\ WellFormed(call[t])
        /\ call[t].before = <<Unsupported>>
        /\ res[t].ret = NULL

\* C2: every status the probe has returned, in any state and to any thread,
\* is one of 0, 1, 2, 3.
C2_StatusInClosedSet ==
    /\ statusSeen \subseteq StatusCodes
    /\ \A t \in Threads : res[t].fn = "probe" => res[t].ret \in StatusCodes

C2_Witness ==
    \E t \in Threads, u \in Threads :
        /\ res[t].fn = "probe"
        /\ call[t].before # <<>>
        /\ res[u].fn \in {"generate", "free"}

\* C5: a windows_llm_free_string(NULL) call returns without a fault and
\* leaves the heap, the backend handle and the buffers in flight as they were.
C5_FreeNullNoOp ==
    [][ \A t \in Threads :
          (pc[t] = "free" /\ call[t].ptr = NULL /\ pc'[t] # "free")
          => /\ pc'[t] = "idle"
             /\ proc' = proc
             /\ held' = held
             /\ produced' = produced ]_vars

C5_Witness ==
    \E t \in Threads, u \in Threads :
        /\ t # u
        /\ res[t].fn = "free" /\ call[t].ptr = NULL
        /\ res[u].fn = "free" /\ call[u].ptr = NULL

\* C7: a generate call that completes, whatever the other threads are doing,
\* returns without a fault either NULL or a freshly allocated block no other
\* call holds, and changes nothing of the process state but that block.
C7_ConcurrentGenerate ==
    [][ \A t \in Threads :
          (pc[t] = "generate" /\ pc'[t] # "generate")
          => /\ pc'[t] = "idle"
             /\ \/ res'[t].ret = NULL
                \/ /\ res'[t].ret \notin held
                   /\ res'[t].ret \notin proc.live
                   /\ res'[t].ret \in proc'.live
             /\ proc'.live \ {res'[t].ret} = proc.live
             /\ proc'.heapOk = proc.heapOk
             /\ proc'.handleInits = proc.handleInits
             /\ proc'.handleTeardowns = proc.handleTeardowns ]_vars

C7_Witness ==
    \E t \in Threads, u \in Threads :
        /\ t # u
        /\ overlapped
        /\ res[t].fn = "generate"
        /\ res[u].fn = "generate"

\* C8: all probes return the same status, a probe changes nothing of the
\* process state, and whether a generate returns NULL does not depend on a
\* probe having preceded it.
C8_ProbePureIdempotent ==
    /\ [](Cardinality(statusSeen) <= 1)
    /\ [](\A t \in Threads, u \in Threads :
            ( /\ res[t].fn = "generate" /\ res[u].fn = "generate"
              /\ call[t].before = <<>> /\ call[u].before # <<>> )
            => ((res[t].ret = NULL) <=> (res[u].ret = NULL)))
    /\ [][ \A t \in Threads :
             (pc[t] = "probe" /\ pc'[t] # "probe")
             => /\ pc'[t] = "idle"
                /\ proc' = proc
                /\ held' = held
                /\ produced' = produced ]_vars

C8_Witness ==
    \E t \in Threads, u \in Threads :
        /\ res[t].fn = "probe"
        /\ call[t].before = <<Unsupported>>
        /\ res[t].ret = Unsupported
        /\ res[u].fn = "generate"
        /\ call[u].before = <<Unsupported>>

\* C9 as stated: once a probe or a generate has completed the backend handle
\* has been created, exactly once, and it is never torn down.
C9_LazyInitOnFirstCall ==
    /\ proc.handleInits <= 1
    /\ proc.handleTeardowns = 0
    /\ (\E t \in Threads : res[t].fn \in {"probe", "generate"}) => proc.handleInits = 1

\* C9 amended: no probe, generate or release call creates a backend handle
\* (so one is created at most once: never), and none is torn down.
C9_NoHandleEverCreated ==
    /\ proc.handleInits = 0
    /\ proc.handleTeardowns = 0

C9_Witness ==
    \E t \in Threads, u \in Threads :
        /\ res[t].fn = "probe"
        /\ res[u].fn = "generate"

\* C10: generate returns NULL for every argument combination and never faults
\* on the prompt; no block is ever allocated or handed out; a non-null pointer
\* passed to windows_llm_free_string is never one the bridge produced.
C10_GenerateAlwaysNull ==
    /\ \A t \in Threads : res[t].fn = "generate" => res[t].ret = NULL
    /\ \A t \in Threads : call[t].fn = "generate" => pc[t] # "faulted"
    /\ proc.live = {}
    /\ held = {}
    /\ produced = {}
    /\ \A t \in Threads :
         (call[t].fn = "free" /\ call[t].ptr # NULL) => call[t].ptr \notin produced

C10_Witness ==
    \E t \in Threads, u \in Threads :
        /\ res[t].fn = "generate"
        /\ ~call[t].prompt.valid
        /\ call[t].maxTokens <= 0
        /\ res[u].fn = "free"
        /\ call[u].ptr # NULL

====
